---- MODULE Spec2Model ----
(***************************************************************************)
(* Price acquisition of FangPro (backend/scraper.go): the providers        *)
(* (BAPPEBTIScraper, NewsPortalScraper, MockScraperWithRealData), the      *)
(* coordinator ScraperManager.ScrapeAll and the helper extractPrice; the   *)
(* table prices (sql/schema.sql), the functions that write and read it     *)
(* (SaveScrapedPrice, AutoFetchPricesFromScraper, AutoFetchPrices,         *)
(* GetLatestPriceJSON, GetScrapedPriceJSON) and the price handlers.        *)
(*                                                                         *)
(* Specifications: Spec (one ScrapeAll call over any provider list),       *)
(* SpecMock (the simulated provider with the clock running), SpecTwice     *)
(* (the simulated provider called twice), SpecPrice (extractPrice and the  *)
(* row callback), SpecApp (one request to the price handlers on a stored   *)
(* table), SpecDB (concurrent callers of DB.Exec on the one connection),   *)
(* SpecReduce (one call of ParallelReduce) and SpecPool (a WorkerPool with *)
(* a producer that submits, closes and then reads).                        *)
(*                                                                         *)
(* Modelling conventions:                                                  *)
(*  - a Go string that the code takes apart (a raw price) is a sequence of *)
(*    one-character strings; a string built with Sprintf is the sequence   *)
(*    of its pieces;                                                       *)
(*  - a float64 price is an exact decimal in fixed point, scaled by        *)
(*    PriceScale (binary rounding and the float64 range are not modelled); *)
(*  - a nil slice and an empty slice are both <<>>, a nil error is "".     *)
(***************************************************************************)
EXTENDS Integers, Sequences, FiniteSets, TLC

\* ------------------------------------------------------------------ bounds
MaxLen == 3
MaxRows == 1
MaxProviders == 2
MaxStubLen == 1
MaxTicks == 1
MaxStored == 2
MaxCallers == 2
MaxBatch == 2
MaxSlice == 3
MaxWorkers == 2
MaxJobs == 6

\* ------------------------------------------------------- program constants
DefaultClientTimeout == 0
NewsClientTimeout == 10
VariationCycle == 5
MinColumns == 4
MaxOpenConns == 1
BufferPerWorker == 2

PriceScale == 10 ^ MaxLen

VARIABLES
    scrapers,   \* sm.Scrapers: the provider list of the manager
    pc,         \* position of the one ScrapeAll call
    i,          \* index of the provider the for loop of ScrapeAll is at
    allPrices,  \* ScrapeAll's allPrices
    ret,        \* (prices, err) the provider last invoked returned
    result,     \* (prices, err) ScrapeAll returned
    calls,      \* history: indices of the providers invoked, in order
    outcomes,   \* history: how each invoked provider returned, in order
    bUrl,       \* BAPPEBTIScraper.Scrape: index of the url the loop is at
    bPrices,    \* BAPPEBTIScraper.Scrape: prices
    bLog,       \* history: per url, whether a document was parsed, and its rows
    mLeft,      \* MockScraperWithRealData.Scrape: regions the range has not visited
    mPrices,    \* MockScraperWithRealData.Scrape: prices
    now,        \* time.Now().Unix()
    ticks,      \* seconds elapsed while the simulated provider runs
    raw,        \* extractPrice's argument (a row's price text)
    ncols,      \* number of td cells of the row under the Each callback
    pstage,     \* position of the extractPrice / row-callback run
    priceOut,   \* what extractPrice returned for raw
    rowOut,     \* prices after the Each callback ran on the row
    prev,       \* history: what an earlier Scrape of the simulated provider returned
    store,      \* the rows of table prices, in insertion order
    seq,        \* sqlite_sequence of prices: the largest id ever given
    clock,      \* datetime('now') of the database, in seconds
    req,        \* the request (or call) being served
    hpc,        \* position of the request's handler
    idx,        \* index the save loop of the handler is at
    inserts,    \* history: the INSERTs the request executed, and how each ended
    reply,      \* the response written (or the value returned)
    base,       \* history: number of rows of prices when the request arrived
    dbOpen,     \* database/sql: the callers that hold an open connection of DB
    dbCall,     \* per caller of DB.Exec: its kind, position and INSERT counts
    dbLog,      \* history: the INSERTs applied to the database file, in order
    redIn,      \* ParallelReduce: its arguments slice, initial, fn, workers
    redPc,      \* ParallelReduce: position of the calling goroutine
    redI,       \* ParallelReduce: i of the loop that starts the chunk goroutines
    redGo,      \* ParallelReduce: per chunk goroutine, its position, chunk and result
    redWg,      \* ParallelReduce: counter of wg
    resultChan, \* ParallelReduce: the values buffered in resultChan
    resultChanClosed, \* ParallelReduce: close(resultChan) was executed
    finalResult, \* ParallelReduce: finalResult
    poolIn,     \* WorkerPool: number of workers and of jobs the producer submits
    jobs,       \* WorkerPool: the values buffered in pool.jobs
    jobsClosed, \* WorkerPool: close(wp.jobs) was executed
    results,    \* WorkerPool: the values buffered in pool.results
    resultsClosed, \* WorkerPool: close(pool.results) was executed
    poolGo,     \* WorkerPool: per worker goroutine, its position and job
    poolWg,     \* WorkerPool: counter of pool.wg
    producer,   \* position of the goroutine that submits, closes and reads
    received    \* history: the values the producer read from Results()

coordVars == <<scrapers, pc, i, allPrices, ret, result, calls, outcomes>>
bappebtiVars == <<bUrl, bPrices, bLog>>
mockVars == <<mLeft, mPrices, now, ticks>>
priceVars == <<raw, ncols, pstage, priceOut, rowOut>>
storeVars == <<store, seq, clock>>
handlerVars == <<req, hpc, idx, inserts, reply, base>>
appVars == <<storeVars, handlerVars>>
dbVars == <<dbOpen, dbCall, dbLog>>
reduceVars == <<redIn, redPc, redI, redGo, redWg, resultChan, resultChanClosed, finalResult>>
poolVars == <<poolIn, jobs, jobsClosed, results, resultsClosed, poolGo, poolWg, producer, received>>
concVars == <<dbVars, reduceVars, poolVars>>
vars == <<coordVars, bappebtiVars, mockVars, priceVars, prev, appVars, concVars>>

\* ------------------------------------------------------------ extractPrice
Digits == {"0", "1", "2", "3", "4", "5", "6", "7", "8", "9"}

DigitVal(c) ==
    CASE c = "0" -> 0 [] c = "1" -> 1 [] c = "2" -> 2 [] c = "3" -> 3
      [] c = "4" -> 4 [] c = "5" -> 5 [] c = "6" -> 6 [] c = "7" -> 7
      [] c = "8" -> 8 [] c = "9" -> 9

\* re.ReplaceAllString(s, "") with re = [^\d.]: every character that is
\* neither a digit nor a dot is removed.
CleanPriceKeepCommas(s) == SelectSeq(s, LAMBDA c : c \in Digits \cup {".", ","})

CleanPrice(s) == SelectSeq(s, LAMBDA c : c \in Digits \cup {"."})

\* strconv.ParseFloat(cleaned, 64), read as the library scans a decimal:
\* digits with at most one dot, at least one digit, nothing left over.
\* st = [k: next index, mant: digits read so far as a number, dp: digits after
\* the dot, dot: a dot was read, dig: a digit was read].
RECURSIVE ScanFloat(_, _)
ScanFloat(s, st) ==
    IF st.k > Len(s) THEN st
    ELSE LET c == s[st.k] IN
         IF c = "." THEN
             IF st.dot THEN st
             ELSE ScanFloat(s, [st EXCEPT !.k = @ + 1, !.dot = TRUE])
         ELSE IF c \in Digits THEN
             ScanFloat(s, [st EXCEPT !.k = @ + 1, !.dig = TRUE,
                                     !.mant = 10 * @ + DigitVal(c),
                                     !.dp = IF st.dot THEN @ + 1 ELSE @])
         ELSE st

ParseFloat(s) ==
    LET st == ScanFloat(s, [k |-> 1, mant |-> 0, dp |-> 0, dot |-> FALSE, dig |-> FALSE])
    IN  IF st.dig /\ st.k > Len(s)
        THEN [val |-> (st.mant * PriceScale) \div (10 ^ st.dp), err |-> ""]
        ELSE [val |-> 0, err |-> "invalid syntax"]

extractPrice(s) ==
    LET p == ParseFloat(CleanPrice(s))
    IN  IF p.err # "" THEN 0 ELSE p.val

\* ------------------------------------------------------------ ScrapedPrice
\* ScrapedAt (time.Now() of the append) is left out of the record.
ScrapedPrice(region, price, source, sourceURL) ==
    [Region |-> region, Price |-> price, Quality |-> "Standard",
     Source |-> source, SourceURL |-> sourceURL]

NoRet == [prices |-> <<>>, err |-> ""]

\* ------------------------------------------------------------- providers
GetName(kind) ==
    CASE kind = "BAPPEBTI" -> "BAPPEBTI Info Harga"
      [] kind = "News" -> "News Portal Scraper"
      [] kind = "Mock" -> "Real Data Research + Market Simulation"
      [] OTHER -> kind

\* The implementations of TobaccoScraper in the repository, and any further
\* implementation of the interface (Stub), which may return anything.
RepoKinds == {"BAPPEBTI", "News", "Mock"}
StubKinds == {"Stub"}
Kinds == RepoKinds \cup StubKinds

NewScraperManagerNoFallback == <<"BAPPEBTI">>

NewScraperManager == <<"BAPPEBTI", "Mock">>

SeqsUpTo(S, n) == UNION {[1..k -> S] : k \in 0..n}

ProviderLists == SeqsUpTo(Kinds, MaxProviders)

\* What an arbitrary implementation of Scrape() may return: any records, of
\* any price, with or without an error.
StubRecords(kind) ==
    {ScrapedPrice("Jember", p, <<GetName(kind)>>, "stub") : p \in {0, 90000 * PriceScale}}

StubOutcomes(kind) ==
    {[prices |-> b, err |-> e] : b \in SeqsUpTo(StubRecords(kind), MaxStubLen),
                                 e \in {"", "stub failed"}}

\* --------------------------------------------------- BAPPEBTIScraper.Scrape
Urls == <<"TEMBAKAU%20BOYOLALI", "TEMBAKAU%20BURLEY", "TEMBAKAU%20KASTURI">>

\* A table row: the number of its td cells, the text of cell 1 (region) and
\* of cell 2 (price).
Row(n, region, price) == [ncols |-> n, region |-> region, price |-> price]

\* The body of the Each callback: prices after the row.
RowCallbackNoPriceCheck(prices, row, url) ==
    IF row.ncols < MinColumns THEN prices
    ELSE Append(prices, ScrapedPrice(row.region, extractPrice(row.price),
                                     <<GetName("BAPPEBTI")>>, url))

RowCallbackThreeColumns(prices, row, url) ==
    IF row.ncols < MinColumns - 1 THEN prices
    ELSE LET price == extractPrice(row.price)
         IN  IF price > 0
             THEN Append(prices, ScrapedPrice(row.region, price,
                                              <<GetName("BAPPEBTI")>>, url))
             ELSE prices

RowCallbackUrlAsSource(prices, row, url) ==
    IF row.ncols < MinColumns THEN prices
    ELSE LET price == extractPrice(row.price)
         IN  IF price > 0
             THEN Append(prices, ScrapedPrice(row.region, price, <<url>>, url))
             ELSE prices

RowCallback(prices, row, url) ==
    IF row.ncols < MinColumns THEN prices
    ELSE LET price == extractPrice(row.price)
         IN  IF price > 0
             THEN Append(prices, ScrapedPrice(row.region, price,
                                              <<GetName("BAPPEBTI")>>, url))
             ELSE prices

\* doc.Find("table tbody tr").Each(...): the callback on every row, in
\* document order.
RECURSIVE EachRow(_, _, _)
EachRow(prices, doc, url) ==
    IF doc = <<>> THEN prices
    ELSE EachRow(RowCallback(prices, Head(doc), url), Tail(doc), url)

\* The for body for one url, given what http.Get and the HTML parser did:
\* resp.kind is "error" (http.Get failed), "badhtml" (NewDocumentFromReader
\* failed) or "doc" (resp.doc are the rows of the document).
ScrapeUrlDropOnError(prices, url, resp) ==
    IF resp.kind = "doc" THEN EachRow(prices, resp.doc, url) ELSE <<>>

ScrapeUrl(prices, url, resp) ==
    IF resp.kind = "error" THEN prices
    ELSE IF resp.kind = "badhtml" THEN prices
    ELSE EachRow(prices, resp.doc, url)

\* Price texts a page may hold: Rp 85,000 / 0
PagePrices ==
    {<<"R", "p", " ", "8", "5", ",", "0", "0", "0">>, <<"0">>}

PageRows ==
    {Row(MinColumns, "Jember", p) : p \in PagePrices}
        \cup {Row(MinColumns - 1, "Jember", <<"R", "p", " ", "8", "5", ",", "0", "0", "0">>)}

Documents == SeqsUpTo(PageRows, MaxRows)

Responses ==
    {[kind |-> "error", doc |-> <<>>], [kind |-> "badhtml", doc |-> <<>>]}
        \cup {[kind |-> "doc", doc |-> d] : d \in Documents}

\* The Timeout of the http.Client a provider fetches with; 0 means none.
ClientTimeout(kind) ==
    IF kind = "News" THEN NewsClientTimeout ELSE DefaultClientTimeout

\* ------------------------------------------- MockScraperWithRealData.Scrape
\* time.Date(year, month, day, 0, 0, 0, 0, time.UTC)
Date(year, month, day) == [year |-> year, month |-> month, day |-> day]

\* A number in at least two digits, as layouts "01" and "02" write it.
TwoDigits(n) == IF n < 10 THEN "0" \o ToString(n) ELSE ToString(n)

\* t.Format("2006-01-02"), for a year of four digits
FormatDateUnpadded(t) ==
    ToString(t.year) \o "-" \o ToString(t.month) \o "-" \o ToString(t.day)

FormatDate(t) ==
    ToString(t.year) \o "-" \o TwoDigits(t.month) \o "-" \o TwoDigits(t.day)

LastResearch ==
    [r \in {"Jember", "Temanggung", "Lombok", "Klaten", "Pamekasan"} |->
        CASE r = "Jember" ->
               [BasePrice |-> 85000, DateChecked |-> Date(2024, 9, 15), Source |-> "DPRD Jember Report"]
          [] r = "Temanggung" ->
               [BasePrice |-> 150000, DateChecked |-> Date(2024, 9, 18), Source |-> "InfoPublik + ANTARA News"]
          [] r = "Lombok" ->
               [BasePrice |-> 78000, DateChecked |-> Date(2024, 8, 1), Source |-> "Market Survey"]
          [] r = "Klaten" ->
               [BasePrice |-> 88000, DateChecked |-> Date(2024, 7, 15), Source |-> "Local Market"]
          [] r = "Pamekasan" ->
               [BasePrice |-> 95000, DateChecked |-> Date(2024, 8, 20), Source |-> "Madura Market Survey"]]

\* (time.Now().Unix() % 5) - 2
VariationUnshifted(unix) == unix % VariationCycle

VariationLongCycle(unix) == (unix % (2 * VariationCycle)) - 2

Variation(unix) == (unix % VariationCycle) - 2

\* research.BasePrice * (1.0 + float64(variation)/100.0), in fixed point
CurrentPrice(research, unix) ==
    (research.BasePrice * (PriceScale + (Variation(unix) * PriceScale) \div 100))

\* The body of the range loop for one region, at clock value unix.
MockEntryOneRegion(region, unix) ==
    LET research == LastResearch[region]
    IN  ScrapedPrice("Jember", CurrentPrice(research, unix),
                     <<research.Source, " (Last checked: ",
                       FormatDate(research.DateChecked), ")">>,
                     "Manual Research + Market Data")

MockEntryAtEpoch(region, unix) ==
    LET research == LastResearch[region]
    IN  ScrapedPrice(region, CurrentPrice(research, 0),
                     <<research.Source, " (Last checked: ",
                       FormatDate(research.DateChecked), ")">>,
                     "Manual Research + Market Data")

MockEntry(region, unix) ==
    LET research == LastResearch[region]
    IN  ScrapedPrice(region, CurrentPrice(research, unix),
                     <<research.Source, " (Last checked: ",
                       FormatDate(research.DateChecked), ")">>,
                     "Manual Research + Market Data")

\* -------------------------------------------------- ScraperManager.ScrapeAll
\* The for body after scraper.Scrape() returned r: allPrices afterwards, and
\* whether the loop is left.
ScrapeAllStepNoBreak(all, r) ==
    IF r.err # "" THEN [all |-> all, brk |-> FALSE]
    ELSE IF Len(r.prices) > 0 THEN [all |-> all \o r.prices, brk |-> FALSE]
    ELSE [all |-> all, brk |-> FALSE]

ScrapeAllStepBreakOnEmpty(all, r) ==
    IF r.err # "" THEN [all |-> all, brk |-> FALSE]
    ELSE [all |-> all \o r.prices, brk |-> TRUE]

ScrapeAllStepKeepOnError(all, r) ==
    IF r.err # "" THEN [all |-> all \o r.prices, brk |-> FALSE]
    ELSE IF Len(r.prices) > 0 THEN [all |-> all \o r.prices, brk |-> TRUE]
    ELSE [all |-> all, brk |-> FALSE]

ScrapeAllStep(all, r) ==
    IF r.err # "" THEN [all |-> all, brk |-> FALSE]
    ELSE IF Len(r.prices) > 0 THEN [all |-> all \o r.prices, brk |-> TRUE]
    ELSE [all |-> all, brk |-> FALSE]

\* The statements after the loop.
ScrapeAllReturnNeverFails(all) == [prices |-> all, err |-> ""]

ScrapeAllReturn(all) ==
    IF Len(all) = 0 THEN [prices |-> <<>>, err |-> "all scrapers failed"]
    ELSE [prices |-> all, err |-> ""]

\* ------------------------------------------------------------------- state
NotScraping ==
    /\ bUrl = 0 /\ bPrices = <<>> /\ bLog = <<>>
    /\ mLeft = {} /\ mPrices = <<>> /\ now = 0 /\ ticks = 0

NoPriceRun ==
    /\ raw = <<>> /\ ncols = 0 /\ pstage = "off" /\ priceOut = 0 /\ rowOut = <<>>

\* No Scrape of the simulated provider has returned before.
NoPrev == [called |-> FALSE, now |-> 0, prices |-> <<>>]

NoReq == [op |-> "none", method |-> "", region |-> <<>>, given |-> {}]

NoResp == [status |-> 0, msg |-> "", rows |-> <<>>]

\* No request is served and table prices is empty.
NoRequest ==
    /\ store = <<>> /\ seq = 0 /\ clock = 0
    /\ req = NoReq /\ hpc = "off" /\ idx = 0 /\ inserts = <<>>
    /\ reply = NoResp /\ base = 0

\* No caller of DB.Exec is modelled.
NoCallers == dbOpen = {} /\ dbCall = <<>> /\ dbLog = <<>>

\* ParallelReduce is not called.
NoReduce ==
    /\ redIn = [slice |-> <<>>, initial |-> 0, fn |-> "", workers |-> 0]
    /\ redPc = "off" /\ redI = 0 /\ redGo = <<>> /\ redWg = 0
    /\ resultChan = <<>> /\ resultChanClosed = FALSE /\ finalResult = 0

\* No WorkerPool exists.
NoPool ==
    /\ poolIn = [workers |-> 0, n |-> 0]
    /\ jobs = <<>> /\ jobsClosed = FALSE /\ results = <<>> /\ resultsClosed = FALSE
    /\ poolGo = <<>> /\ poolWg = 0
    /\ producer = [pc |-> "off", next |-> 0] /\ received = <<>>

\* A manager holds some provider list and ScrapeAll is entered.
Init ==
    /\ scrapers \in ProviderLists
    /\ pc = "loop" /\ i = 1 /\ allPrices = <<>>
    /\ ret = NoRet /\ result = NoRet /\ calls = <<>> /\ outcomes = <<>>
    /\ NotScraping
    /\ NoPriceRun
    /\ prev = NoPrev
    /\ NoRequest
    /\ NoCallers
    /\ NoReduce
    /\ NoPool

\* How a provider returned: with an error, with no record, or with records.
Outcome(r) ==
    IF r.err # "" THEN "error" ELSE IF Len(r.prices) = 0 THEN "empty" ELSE "ok"

\* The provider the loop is at returns r to ScrapeAll.
Returns(r) ==
    /\ ret' = r
    /\ outcomes' = Append(outcomes, Outcome(r))
    /\ pc' = "returned"

\* for _, scraper := range sm.Scrapers { prices, err := scraper.Scrape()
\* prices and err are new variables in every iteration, and the locals of the
\* Scrape that returned before are gone.
TryScraper ==
    /\ pc = "loop" /\ i <= Len(scrapers)
    /\ calls' = Append(calls, i)
    /\ IF scrapers[i] = "BAPPEBTI" THEN
           /\ pc' = "b_loop" /\ bUrl' = 1 /\ bPrices' = <<>> /\ bLog' = <<>>
           /\ mLeft' = {} /\ mPrices' = <<>> /\ now' = 0 /\ ticks' = 0
       ELSE IF scrapers[i] = "Mock" THEN
           /\ pc' = "m_loop" /\ mLeft' = DOMAIN LastResearch /\ mPrices' = <<>>
           /\ now' \in 0..(VariationCycle - 1) /\ ticks' = 0
           /\ bUrl' = 0 /\ bPrices' = <<>> /\ bLog' = <<>>
       ELSE
           /\ pc' = IF scrapers[i] = "News" THEN "n_do" ELSE "stub"
           /\ bUrl' = 0 /\ bPrices' = <<>> /\ bLog' = <<>>
           /\ mLeft' = {} /\ mPrices' = <<>> /\ now' = 0 /\ ticks' = 0
    /\ ret' = NoRet
    /\ UNCHANGED <<scrapers, i, allPrices, result, outcomes, priceVars, prev, concVars, appVars>>

\* An implementation of Scrape() outside the repository returns.
StubScrape ==
    /\ pc = "stub"
    /\ \E r \in StubOutcomes(scrapers[i]) : Returns(r)
    /\ UNCHANGED <<scrapers, i, allPrices, result, calls, bappebtiVars, mockVars, priceVars, prev, concVars, appVars>>

\* BAPPEBTIScraper.Scrape, one url: http.Get returned (an error, or a
\* response whose body parsed or not) and the loop body ran.
BappebtiGet ==
    /\ pc = "b_loop" /\ bUrl <= Len(Urls)
    /\ \E resp \in Responses :
          /\ bPrices' = ScrapeUrl(bPrices, Urls[bUrl], resp)
          /\ bLog' = Append(bLog, resp)
    /\ bUrl' = bUrl + 1
    /\ UNCHANGED <<coordVars, mockVars, priceVars, prev, concVars, appVars>>

\* return prices, nil
BappebtiReturn ==
    /\ pc = "b_loop" /\ bUrl > Len(Urls)
    /\ Returns([prices |-> bPrices, err |-> ""])
    /\ UNCHANGED <<scrapers, i, allPrices, result, calls, bappebtiVars, mockVars, priceVars, prev, concVars, appVars>>

\* NewsPortalScraper.Scrape: client.Do returned an error (return nil, err) or
\* a response (return []ScrapedPrice{}, nil).
NewsDo ==
    /\ pc = "n_do"
    /\ \E e \in {"", "request failed"} : Returns([prices |-> <<>>, err |-> e])
    /\ UNCHANGED <<scrapers, i, allPrices, result, calls, bappebtiVars, mockVars, priceVars, prev, concVars, appVars>>

\* A request was sent and the remote server never answers it.
HttpNoAnswer ==
    /\ \/ pc = "b_loop" /\ bUrl <= Len(Urls) /\ pc' = "b_wait"
       \/ pc = "n_do" /\ pc' = "n_wait"
    /\ UNCHANGED <<scrapers, i, allPrices, ret, result, calls, outcomes,
                   bappebtiVars, mockVars, priceVars, prev, concVars, appVars>>

\* The client's Timeout, when it has one, ends the wait with an error.
HttpTimeout ==
    /\ pc \in {"b_wait", "n_wait"}
    /\ ClientTimeout(scrapers[i]) > 0
    /\ IF pc = "b_wait" THEN
           /\ bPrices' = ScrapeUrl(bPrices, Urls[bUrl], [kind |-> "error", doc |-> <<>>])
           /\ bLog' = Append(bLog, [kind |-> "error", doc |-> <<>>])
           /\ bUrl' = bUrl + 1
           /\ pc' = "b_loop"
           /\ UNCHANGED <<ret, outcomes>>
       ELSE
           /\ Returns([prices |-> <<>>, err |-> "timeout"])
           /\ UNCHANGED bappebtiVars
    /\ UNCHANGED <<scrapers, i, allPrices, result, calls, mockVars, priceVars, prev, concVars, appVars>>

\* MockScraperWithRealData.Scrape, one iteration of the range over the map
\* (whose order Go leaves unspecified), at the clock's current value.
MockIter ==
    /\ pc = "m_loop" /\ mLeft # {}
    /\ \E region \in mLeft :
          /\ mPrices' = Append(mPrices, MockEntry(region, now))
          /\ mLeft' = mLeft \ {region}
    /\ UNCHANGED <<coordVars, bappebtiVars, now, ticks, priceVars, prev, concVars, appVars>>

\* return prices, nil
MockReturn ==
    /\ pc = "m_loop" /\ mLeft = {}
    /\ Returns([prices |-> mPrices, err |-> ""])
    /\ UNCHANGED <<scrapers, i, allPrices, result, calls, bappebtiVars, mockVars, priceVars, prev, concVars, appVars>>

\* if err != nil { continue }; if len(prices) > 0 { append; break }
AfterScrape ==
    /\ pc = "returned"
    /\ LET s == ScrapeAllStep(allPrices, ret) IN
          /\ allPrices' = s.all
          /\ IF s.brk THEN pc' = "exit" /\ i' = i
                      ELSE pc' = "loop" /\ i' = i + 1
    /\ UNCHANGED <<scrapers, ret, result, calls, outcomes, bappebtiVars, mockVars, priceVars, prev, concVars, appVars>>

\* The loop is over (exhausted or left by break): ScrapeAll returns.
ScrapeAllDone ==
    /\ \/ pc = "exit"
       \/ pc = "loop" /\ i > Len(scrapers)
    /\ result' = ScrapeAllReturn(allPrices)
    /\ pc' = "done"
    /\ bUrl' = 0 /\ bPrices' = <<>> /\ bLog' = <<>>
    /\ mLeft' = {} /\ mPrices' = <<>> /\ now' = 0 /\ ticks' = 0
    /\ UNCHANGED <<scrapers, i, allPrices, ret, calls, outcomes, priceVars, prev, concVars, appVars>>

Next ==
    \/ TryScraper
    \/ StubScrape
    \/ BappebtiGet
    \/ BappebtiReturn
    \/ NewsDo
    \/ HttpNoAnswer
    \/ HttpTimeout
    \/ MockIter
    \/ MockReturn
    \/ AfterScrape
    \/ ScrapeAllDone

\* One ScrapeAll call over any provider list; the clock stands still while the
\* simulated provider runs.
Spec == Init /\ [][Next]_vars

\* ------------------------------- MockScraperWithRealData.Scrape and the clock
\* A second passes while the simulated provider runs.
Tick ==
    /\ pc = "m_loop" /\ mLeft # {} /\ ticks < MaxTicks
    /\ now' = now + 1 /\ ticks' = ticks + 1
    /\ UNCHANGED <<coordVars, bappebtiVars, mLeft, mPrices, priceVars, prev, concVars, appVars>>

\* The simulated provider is the only one of the list.
InitMock ==
    /\ scrapers = <<"Mock">>
    /\ pc = "loop" /\ i = 1 /\ allPrices = <<>>
    /\ ret = NoRet /\ result = NoRet /\ calls = <<>> /\ outcomes = <<>>
    /\ NotScraping
    /\ NoPriceRun
    /\ prev = NoPrev
    /\ NoRequest
    /\ NoCallers
    /\ NoReduce
    /\ NoPool

NextMock ==
    \/ TryScraper
    \/ MockIter
    \/ Tick
    \/ MockReturn
    \/ AfterScrape
    \/ ScrapeAllDone

\* One ScrapeAll call over the simulated provider, the clock running.
SpecMock == InitMock /\ [][NextMock]_vars

\* ------------------------ MockScraperWithRealData.Scrape, called a second time
\* The price of each region in what Scrape returned.
PriceOf(prices) ==
    [r \in {prices[j].Region : j \in 1..Len(prices)} |->
        prices[CHOOSE j \in 1..Len(prices) : prices[j].Region = r].Price]

\* Scrape returned, and is called once more on the same provider, at the same
\* second or up to a whole variation cycle later.
MockAgain ==
    /\ pc = "returned" /\ scrapers[i] = "Mock" /\ ~prev.called
    /\ prev' = [called |-> TRUE, now |-> now, prices |-> PriceOf(ret.prices)]
    /\ pc' = "m_loop" /\ mLeft' = DOMAIN LastResearch /\ mPrices' = <<>>
    /\ now' \in now..(now + VariationCycle)
    /\ ret' = NoRet
    /\ UNCHANGED <<scrapers, i, allPrices, result, calls, outcomes, ticks,
                   bappebtiVars, priceVars, appVars, concVars>>

NextTwice ==
    \/ TryScraper
    \/ MockIter
    \/ MockReturn
    \/ MockAgain
    \/ AfterScrape
    \/ ScrapeAllDone

\* The simulated provider called twice, each call within one second.
SpecTwice == InitMock /\ [][NextTwice]_vars

\* ------------------------------------------- extractPrice and the row callback
PriceChars == {"0", "7", ".", ",", "R", " "}

PriceStrings == SeqsUpTo(PriceChars, MaxLen)

\* A row with some number of cells and some price text is about to be read.
InitPrice ==
    /\ scrapers = <<>>
    /\ pc = "off" /\ i = 0 /\ allPrices = <<>>
    /\ ret = NoRet /\ result = NoRet /\ calls = <<>> /\ outcomes = <<>>
    /\ NotScraping
    /\ raw \in PriceStrings
    /\ ncols \in {MinColumns - 1, MinColumns, MinColumns + 1}
    /\ pstage = "input" /\ priceOut = 0 /\ rowOut = <<>>
    /\ prev = NoPrev
    /\ NoRequest
    /\ NoCallers
    /\ NoReduce
    /\ NoPool

\* price := extractPrice(priceStr)
PriceExtract ==
    /\ pstage = "input"
    /\ priceOut' = extractPrice(raw)
    /\ pstage' = "extracted"
    /\ UNCHANGED <<coordVars, bappebtiVars, mockVars, raw, ncols, rowOut, prev, concVars, appVars>>

\* The Each callback on the row, prices being empty before it.
PriceRow ==
    /\ pstage = "extracted"
    /\ rowOut' = RowCallback(<<>>, Row(ncols, "Jember", raw), Urls[1])
    /\ pstage' = "row"
    /\ UNCHANGED <<coordVars, bappebtiVars, mockVars, raw, ncols, priceOut, prev, concVars, appVars>>

NextPrice == PriceExtract \/ PriceRow

SpecPrice == InitPrice /\ [][NextPrice]_vars

\* ------------------------------------------------------------- table prices
\* The letters of the region names the program and its callers use.
Spell(name) ==
    CASE name = "Jember" -> <<"J", "e", "m", "b", "e", "r">>
      [] name = "Temanggung" -> <<"T", "e", "m", "a", "n", "g", "g", "u", "n", "g">>
      [] name = "Lombok" -> <<"L", "o", "m", "b", "o", "k">>
      [] name = "Klaten" -> <<"K", "l", "a", "t", "e", "n">>
      [] name = "Pamekasan" -> <<"P", "a", "m", "e", "k", "a", "s", "a", "n">>
      [] name = "Malang" -> <<"M", "a", "l", "a", "n", "g">>
      [] name = "Surabaya" -> <<"S", "u", "r", "a", "b", "a", "y", "a">>
      [] name = "Bondowoso" -> <<"B", "o", "n", "d", "o", "w", "o", "s", "o">>

UpperCase ==
    <<"A", "B", "C", "D", "E", "F", "G", "H", "I", "J", "K", "L", "M",
      "N", "O", "P", "Q", "R", "S", "T", "U", "V", "W", "X", "Y", "Z">>

LowerCase ==
    <<"a", "b", "c", "d", "e", "f", "g", "h", "i", "j", "k", "l", "m",
      "n", "o", "p", "q", "r", "s", "t", "u", "v", "w", "x", "y", "z">>

\* The case folding of one letter.
FoldChar(c) ==
    IF \E n \in 1..Len(UpperCase) : UpperCase[n] = c
    THEN LowerCase[CHOOSE n \in 1..Len(UpperCase) : UpperCase[n] = c]
    ELSE c

\* strings.EqualFold(s, t), on the letters of s and t
EqualExact(s, t) == s = t

EqualFold(s, t) ==
    /\ Len(s) = Len(t)
    /\ \A n \in 1..Len(s) : FoldChar(s[n]) = FoldChar(t[n])

\* The values of one INSERT INTO prices (region, price, unit, source,
\* recorded_at); recorded_at, a formatted time.Now(), is left out.
Payload(region, price, unit, source) ==
    [region |-> region, price |-> price, unit |-> unit, source |-> source]

\* The table and its sqlite_sequence after DB.Exec of the INSERT, which
\* succeeded (ok) or returned an error: id is AUTOINCREMENT and created_at
\* defaults to datetime('now').
ExecInsertReplace(db, payload, at, ok) ==
    IF ok
    THEN [rows |-> [n \in 1..(IF \E j \in 1..Len(db.rows) : db.rows[j].region = payload.region
                              THEN Len(db.rows) ELSE Len(db.rows) + 1) |->
                      IF n <= Len(db.rows) /\ db.rows[n].region # payload.region
                      THEN db.rows[n]
                      ELSE [id |-> IF n <= Len(db.rows) THEN db.rows[n].id ELSE db.seq + 1,
                            region |-> payload.region, price |-> payload.price,
                            unit |-> payload.unit, source |-> payload.source,
                            created_at |-> at]],
          seq |-> db.seq + 1]
    ELSE db

ExecInsert(db, payload, at, ok) ==
    IF ok
    THEN [rows |-> Append(db.rows,
                          [id |-> db.seq + 1,
                           region |-> payload.region, price |-> payload.price,
                           unit |-> payload.unit, source |-> payload.source,
                           created_at |-> at]),
          seq |-> db.seq + 1]
    ELSE db

\* SaveScrapedPrice: the values it inserts for data.
SavePayload(data) ==
    Payload(data.Region, data.Price, "kg",
            data.Source \o <<" (Scraped: ", data.Quality, ")">>)

LatestRowsFold(rows, region) ==
    {rows[j] : j \in {n \in 1..Len(rows) :
        /\ EqualFold(Spell(rows[n].region), region)
        /\ \A m \in 1..Len(rows) :
              EqualFold(Spell(rows[m].region), region)
                  => rows[m].created_at <= rows[n].created_at}}

\* The rows a SELECT ... WHERE region = ? ORDER BY created_at DESC LIMIT 1 may
\* give: ORDER BY names created_at only, so among the rows of the region with
\* the largest created_at SQLite is free to give any.
LatestRows(rows, region) ==
    {rows[j] : j \in {n \in 1..Len(rows) :
        /\ Spell(rows[n].region) = region
        /\ \A m \in 1..Len(rows) :
              Spell(rows[m].region) = region => rows[m].created_at <= rows[n].created_at}}

\* The rows of the table in an order SELECT ... ORDER BY created_at DESC may
\* give them.
ListOrders(rows) ==
    {[n \in 1..Len(rows) |-> rows[f[n]]] :
        f \in {g \in [1..Len(rows) -> 1..Len(rows)] :
                  /\ \A a, b \in 1..Len(rows) : a # b => g[a] # g[b]
                  /\ \A a, b \in 1..Len(rows) :
                        a < b => rows[g[a]].created_at >= rows[g[b]].created_at}}

\* ---------------------------------------------------------------- handlers
\* respondJSON and respondError: the status and what the body carries.
RespondJSON(status, msg, rows) == [status |-> status, msg |-> msg, rows |-> rows]

RespondError(msg, status) == [status |-> status, msg |-> msg, rows |-> <<>>]

\* withMethodValidation(allowedMethods...): whether next is called.
MethodAllowedAny(allowedMethods, method) == TRUE

MethodAllowed(allowedMethods, method) ==
    \E n \in 1..Len(allowedMethods) : allowedMethods[n] = method

\* withErrorHandling: the handler returned err, having written okReply when
\* err is nil.
WithErrorHandling(err, okReply) ==
    IF err # "" THEN RespondError(err, 500) ELSE okReply

getRegionOrDefault(region) ==
    IF region = <<>> THEN Spell("Jember") ELSE region

\* GetLatestPriceJSON(region): the values it may return on table rows.
GetLatestPriceJSON(rows, region) ==
    IF LatestRows(rows, region) = {}
    THEN {[row |-> <<>>, err |-> "no price data found for region"]}
    ELSE {[row |-> <<r>>, err |-> ""] : r \in LatestRows(rows, region)}

\* The for loop of GetScrapedPriceJSON: the first record of prices whose
\* region equals region under EqualFold, if any.
RECURSIVE FirstMatch(_, _)
FirstMatch(prices, region) ==
    IF prices = <<>> THEN <<>>
    ELSE IF EqualFold(Spell(Head(prices).Region), region) THEN <<Head(prices)>>
    ELSE FirstMatch(Tail(prices), region)

\* GetScrapedPriceJSON(region), ScrapeAll having returned res.
GetScrapedPriceJSON(res, region) ==
    IF res.err # "" THEN [row |-> <<>>, err |-> res.err]
    ELSE IF FirstMatch(res.prices, region) = <<>>
         THEN [row |-> <<>>, err |-> "region not found in scraped data"]
         ELSE [row |-> FirstMatch(res.prices, region), err |-> ""]

\* AutoFetchPricesFromScraper, after SaveScrapedPrice returned for the record
\* at idx of n: the index the loop goes on with (a failed insert is logged
\* and the loop continues).
AfterSaveStopOnError(n, index, ok) == IF ok THEN index + 1 ELSE n + 1

AfterSave(n, index, ok) == index + 1

\* AutoFetchPricesFromScraper: what it returns after the loop, log being how
\* the inserts ended.
SaveReturnFirstError(log) ==
    IF \E n \in 1..Len(log) : ~log[n].ok THEN "insert failed" ELSE ""

SaveReturn(log) == ""

\* AutoFetchPrices: its regions, and prices 5000 + rand.Intn(3000) may give.
SimulatedRegions == <<"Jember", "Malang", "Surabaya", "Bondowoso">>

SimulatedPrices == {(5000 + n) * PriceScale : n \in {0, 2999}}

Methods == {"GET", "POST", "OPTIONS"}

\* enableCORS: a preflight request is answered at once and next is not
\* called.
Preflight(method) == method = "OPTIONS"

\* The region parameter of a request: absent, or some letters.
QueryRegions ==
    {<<>>, Spell("Jember"), <<"j", "e", "m", "b", "e", "r">>,
     <<"L", "O", "M", "B", "O", "K">>, Spell("Malang")}

\* The argument of a call of GetScrapedPriceJSON.
PreviewRegions == {<<"j", "e", "m", "b", "e", "r">>, Spell("Malang")}

\* The bodies of POST /harga/add that are valid JSON: objects with or
\* without the key unit.
ManualBodies ==
    {[region |-> r, price |-> 85000 * PriceScale, source |-> <<"Market Survey">>] :
        r \in {"Jember", "Lombok"}}
      \cup {[region |-> "Jember", price |-> 85000 * PriceScale, unit |-> u,
              source |-> <<"Market Survey">>] : u \in {"kg", "kuintal"}}

\* json.NewDecoder(r.Body).Decode(&p): a field whose key the body lacks keeps
\* its zero value.
Decode(body) ==
    Payload(body.region, body.price,
            IF "unit" \in DOMAIN body THEN body.unit ELSE "", body.source)

\* --------------------------------------------- one request on a stored table
RECURSIVE SumTo(_, _)
SumTo(f, n) == IF n = 0 THEN 0 ELSE SumTo(f, n - 1) + f[n]

\* What tobacco.db may hold when a request arrives: rows earlier requests
\* inserted (the first for Jember), ids in insertion order, each created in
\* the second of the row before it or in the next.
StoredTables ==
    UNION {{[j \in 1..n |->
                [id |-> j, region |-> regs[j], price |-> 85000 * PriceScale,
                 unit |-> "kg", source |-> <<"Market Survey">>,
                 created_at |-> SumTo(steps, j)]] :
              regs \in {rg \in [1..n -> {"Jember", "Lombok"}] : n > 0 => rg[1] = "Jember"},
              steps \in {st \in [1..n -> {0, 1}] : n > 0 => st[1] = 0}} :
           n \in 0..MaxStored}

\* The providers a manager is built with: those of NewScraperManager, or
\* these without the simulated provider at the end.
ManagerLists ==
    {NewScraperManager, SubSeq(NewScraperManager, 1, Len(NewScraperManager) - 1)}

InitApp ==
    /\ scrapers \in ManagerLists
    /\ pc = "off" /\ i = 0 /\ allPrices = <<>>
    /\ ret = NoRet /\ result = NoRet /\ calls = <<>> /\ outcomes = <<>>
    /\ NotScraping
    /\ NoPriceRun
    /\ prev = NoPrev
    /\ store \in StoredTables
    /\ seq = Len(store)
    /\ clock = IF store = <<>> THEN 0 ELSE store[Len(store)].created_at
    /\ req = NoReq /\ hpc = "idle" /\ idx = 0 /\ inserts = <<>>
    /\ reply = NoResp /\ base = Len(store)
    /\ NoCallers
    /\ NoReduce
    /\ NoPool

\* DB.Exec of an INSERT by caller by, which succeeds or not.
Exec(by, payload, ok) ==
    /\ store' = ExecInsert([rows |-> store, seq |-> seq], payload, clock, ok).rows
    /\ seq' = ExecInsert([rows |-> store, seq |-> seq], payload, clock, ok).seq
    /\ inserts' = Append(inserts, [by |-> by, payload |-> payload, ok |-> ok])

\* FetchPricesHandler is called: withMethodValidation(POST), then tryFetch
\* enters AutoFetchPricesFromScraper and that ScrapeAll.
FetchRequest ==
    /\ hpc = "idle"
    /\ \E method \in Methods :
          /\ req' = [op |-> "fetch", method |-> method, region |-> <<>>, given |-> {}]
          /\ IF Preflight(method)
             THEN /\ hpc' = "responded" /\ pc' = pc /\ i' = i
                  /\ reply' = RespondJSON(200, "", <<>>)
             ELSE IF MethodAllowed(<<"POST">>, method)
             THEN /\ hpc' = "scrape" /\ pc' = "loop" /\ i' = 1
                  /\ reply' = reply
             ELSE /\ hpc' = "responded" /\ pc' = pc /\ i' = i
                  /\ reply' = RespondError("Method tidak didukung", 405)
    /\ UNCHANGED <<scrapers, allPrices, ret, result, calls, outcomes,
                   bappebtiVars, mockVars, priceVars, prev, concVars, storeVars,
                   idx, inserts, base>>

\* AutoFetchPricesFromScraper: ScrapeAll returned. On an error it returns the
\* error and tryFetch enters AutoFetchPrices; else the save loop starts.
ScraperFetched ==
    /\ hpc = "scrape" /\ req.op = "fetch" /\ pc = "done"
    /\ hpc' = IF result.err # "" THEN "fallback" ELSE "save"
    /\ idx' = 1
    /\ UNCHANGED <<coordVars, bappebtiVars, mockVars, priceVars, prev, concVars, storeVars,
                   req, inserts, reply, base>>

\* for _, price := range prices { err := SaveScrapedPrice(price) ... }
SaveOne ==
    /\ hpc = "save" /\ idx <= Len(result.prices)
    /\ \E ok \in BOOLEAN :
          /\ Exec("SaveScrapedPrice", SavePayload(result.prices[idx]), ok)
          /\ idx' = AfterSave(Len(result.prices), idx, ok)
    /\ UNCHANGED <<coordVars, bappebtiVars, mockVars, priceVars, prev, concVars, clock,
                   req, hpc, reply, base>>

\* The loop is over: AutoFetchPricesFromScraper returns, tryFetch returns it
\* and the handler responds.
SaveDone ==
    /\ hpc = "save" /\ idx > Len(result.prices)
    /\ reply' = WithErrorHandling(SaveReturn(inserts), RespondJSON(200, "ok", <<>>))
    /\ hpc' = "responded"
    /\ UNCHANGED <<coordVars, bappebtiVars, mockVars, priceVars, prev, concVars, storeVars,
                   req, idx, inserts, base>>

FallbackOneKeepGoing ==
    /\ hpc = "fallback" /\ idx <= Len(SimulatedRegions)
    /\ \E price \in SimulatedPrices, ok \in BOOLEAN :
          /\ Exec("AutoFetchPrices",
                  Payload(SimulatedRegions[idx], price, "per kg", <<"Market Data API">>), ok)
          /\ idx' = idx + 1 /\ hpc' = hpc /\ reply' = reply
    /\ UNCHANGED <<coordVars, bappebtiVars, mockVars, priceVars, prev, concVars, clock, req, base>>

\* AutoFetchPrices, one region: a failed insert is returned at once.
FallbackOne ==
    /\ hpc = "fallback" /\ idx <= Len(SimulatedRegions)
    /\ \E price \in SimulatedPrices, ok \in BOOLEAN :
          /\ Exec("AutoFetchPrices",
                  Payload(SimulatedRegions[idx], price, "per kg", <<"Market Data API">>), ok)
          /\ IF ok
             THEN idx' = idx + 1 /\ hpc' = hpc /\ reply' = reply
             ELSE /\ idx' = idx /\ hpc' = "responded"
                  /\ reply' = WithErrorHandling("insert failed", NoResp)
    /\ UNCHANGED <<coordVars, bappebtiVars, mockVars, priceVars, prev, concVars, clock, req, base>>

\* AutoFetchPrices returns nil and the handler responds.
FallbackDone ==
    /\ hpc = "fallback" /\ idx > Len(SimulatedRegions)
    /\ reply' = WithErrorHandling("", RespondJSON(200, "ok", <<>>))
    /\ hpc' = "responded"
    /\ UNCHANGED <<coordVars, bappebtiVars, mockVars, priceVars, prev, concVars, storeVars,
                   req, idx, inserts, base>>

\* GetCurrentPriceHandler (no method validation in its chain).
CurrentRequest ==
    /\ hpc = "idle"
    /\ \E method \in Methods, region \in QueryRegions :
          /\ req' = [op |-> "current", method |-> method, region |-> region, given |-> {}]
          /\ IF Preflight(method)
             THEN reply' = RespondJSON(200, "", <<>>)
             ELSE \E r \in GetLatestPriceJSON(store, getRegionOrDefault(region)) :
                     reply' = WithErrorHandling(r.err, RespondJSON(200, "", r.row))
    /\ hpc' = "responded"
    /\ UNCHANGED <<coordVars, bappebtiVars, mockVars, priceVars, prev, concVars, storeVars,
                   idx, inserts, base>>

\* AddPriceHandler: withMethodValidation(POST), the body decoded or not, the
\* INSERT.
AddRequest ==
    /\ hpc = "idle"
    /\ \E method \in Methods :
          IF Preflight(method)
          THEN /\ req' = [op |-> "add", method |-> method, region |-> <<>>, given |-> {}]
               /\ reply' = RespondJSON(200, "", <<>>)
               /\ UNCHANGED <<storeVars, inserts>>
          ELSE IF ~MethodAllowed(<<"POST">>, method)
          THEN /\ req' = [op |-> "add", method |-> method, region |-> <<>>, given |-> {}]
               /\ reply' = RespondError("Method tidak didukung", 405)
               /\ UNCHANGED <<storeVars, inserts>>
          ELSE \/ /\ req' = [op |-> "add", method |-> method, region |-> <<>>, given |-> {}]
                  /\ reply' = RespondError("Request body tidak valid", 400)
                  /\ UNCHANGED <<storeVars, inserts>>
               \/ \E body \in ManualBodies, ok \in BOOLEAN :
                     /\ req' = [op |-> "add", method |-> method, region |-> <<>>,
                                given |-> DOMAIN body]
                     /\ Exec("AddPriceHandler", Decode(body), ok)
                     /\ clock' = clock
                     /\ reply' = WithErrorHandling(IF ok THEN "" ELSE "insert failed",
                                                   RespondJSON(200, "ok", <<>>))
    /\ hpc' = "responded"
    /\ UNCHANGED <<coordVars, bappebtiVars, mockVars, priceVars, prev, concVars, idx, base>>

\* PricesHandler: all rows, newest first; the query may fail.
ListRequest ==
    /\ hpc = "idle"
    /\ \E method \in Methods :
          /\ req' = [op |-> "list", method |-> method, region |-> <<>>, given |-> {}]
          /\ IF Preflight(method)
             THEN reply' = RespondJSON(200, "", <<>>)
             ELSE \/ \E rows \in ListOrders(store) :
                        reply' = WithErrorHandling("", RespondJSON(200, "", rows))
                  \/ reply' = WithErrorHandling("query failed", NoResp)
    /\ hpc' = "responded"
    /\ UNCHANGED <<coordVars, bappebtiVars, mockVars, priceVars, prev, concVars, storeVars,
                   idx, inserts, base>>

\* GetScrapedPriceJSON(region) is called: NewScraperManager and ScrapeAll.
PreviewCall ==
    /\ hpc = "idle"
    /\ \E region \in PreviewRegions :
          req' = [op |-> "preview", method |-> "", region |-> region, given |-> {}]
    /\ hpc' = "scrape" /\ pc' = "loop" /\ i' = 1
    /\ UNCHANGED <<scrapers, allPrices, ret, result, calls, outcomes,
                   bappebtiVars, mockVars, priceVars, prev, concVars, storeVars,
                   idx, inserts, reply, base>>

PreviewReturnSaving ==
    /\ hpc = "scrape" /\ req.op = "preview" /\ pc = "done"
    /\ LET r == GetScrapedPriceJSON(result, req.region)
       IN  /\ reply' = [status |-> 0, msg |-> r.err, rows |-> r.row]
           /\ IF r.err = ""
              THEN Exec("SaveScrapedPrice", SavePayload(r.row[1]), TRUE)
              ELSE UNCHANGED <<store, seq, inserts>>
    /\ hpc' = "responded"
    /\ UNCHANGED <<coordVars, bappebtiVars, mockVars, priceVars, prev, concVars, clock,
                   req, idx, base>>

\* ScrapeAll returned to GetScrapedPriceJSON, which returns.
PreviewReturn ==
    /\ hpc = "scrape" /\ req.op = "preview" /\ pc = "done"
    /\ LET r == GetScrapedPriceJSON(result, req.region)
       IN  reply' = [status |-> 0, msg |-> r.err, rows |-> r.row]
    /\ hpc' = "responded"
    /\ UNCHANGED <<coordVars, bappebtiVars, mockVars, priceVars, prev, concVars, storeVars,
                   req, idx, inserts, base>>

NextApp ==
    \/ FetchRequest
    \/ TryScraper
    \/ BappebtiGet
    \/ BappebtiReturn
    \/ MockIter
    \/ MockReturn
    \/ AfterScrape
    \/ ScrapeAllDone
    \/ ScraperFetched
    \/ SaveOne
    \/ SaveDone
    \/ FallbackOne
    \/ FallbackDone
    \/ CurrentRequest
    \/ AddRequest
    \/ ListRequest
    \/ PreviewCall
    \/ PreviewReturn

\* One request to the price handlers, or one call of GetScrapedPriceJSON, on
\* a table earlier requests filled; the request arrives and is served in the
\* second of the database clock the newest row was created in.
SpecApp == InitApp /\ [][NextApp]_vars

\* ------------------------------------------------- concurrent use of DB
\* The callers of DB.Exec that run concurrently: the save loop of a fetch
\* request (one INSERT per record of the batch, a failed one does not stop
\* it), a manual add and the goroutine of FetchWeather (one INSERT each).
Callers == 1..MaxCallers
CallerKinds == {"fetch", "add", "weather"}

InsertsOf(kind) == IF kind = "fetch" THEN MaxBatch ELSE 1

\* A caller that has not called DB.Exec yet.
NewCaller(kind) ==
    [kind |-> kind, pc |-> "idle", todo |-> InsertsOf(kind), applied |-> 0, failed |-> 0]

\* database/sql with SetMaxOpenConns: DB.conn hands out a connection while
\* fewer than the maximum are open, and the caller waits otherwise.
ConnFreeAlways(numOpen) == TRUE

ConnFree(numOpen) == numOpen < MaxOpenConns

\* No request is being served; the callers are about to call DB.Exec.
InitDB ==
    /\ scrapers = <<>>
    /\ pc = "off" /\ i = 0 /\ allPrices = <<>>
    /\ ret = NoRet /\ result = NoRet /\ calls = <<>> /\ outcomes = <<>>
    /\ NotScraping
    /\ NoPriceRun
    /\ prev = NoPrev
    /\ NoRequest
    /\ dbOpen = {}
    /\ dbCall \in [Callers -> {NewCaller(kind) : kind \in CallerKinds}]
    /\ dbLog = <<>>
    /\ NoReduce
    /\ NoPool

\* DB.Exec is called: the caller asks for a connection.
DBExec(c) ==
    /\ dbCall[c].pc = "idle" /\ dbCall[c].todo > 0
    /\ dbCall' = [dbCall EXCEPT ![c].pc = "wait"]
    /\ UNCHANGED <<coordVars, bappebtiVars, mockVars, priceVars, prev, appVars,
                   dbOpen, dbLog, reduceVars, poolVars>>

\* The caller is given a connection and the INSERT starts on it.
DBConn(c) ==
    /\ dbCall[c].pc = "wait" /\ ConnFree(Cardinality(dbOpen))
    /\ dbOpen' = dbOpen \cup {c}
    /\ dbCall' = [dbCall EXCEPT ![c].pc = "exec"]
    /\ UNCHANGED <<coordVars, bappebtiVars, mockVars, priceVars, prev, appVars, dbLog,
                   reduceVars, poolVars>>

\* The INSERT ends, applied or with an error; the connection is released and
\* DB.Exec returns to the caller, which logs or returns the error.
DBExecReturn(c) ==
    /\ dbCall[c].pc = "exec"
    /\ \E ok \in BOOLEAN :
          /\ dbLog' = IF ok THEN Append(dbLog, c) ELSE dbLog
          /\ dbCall' = [dbCall EXCEPT
                           ![c].pc = IF dbCall[c].todo > 1 THEN "idle" ELSE "done",
                           ![c].todo = dbCall[c].todo - 1,
                           ![c].applied = dbCall[c].applied + (IF ok THEN 1 ELSE 0),
                           ![c].failed = dbCall[c].failed + (IF ok THEN 0 ELSE 1)]
    /\ dbOpen' = dbOpen \ {c}
    /\ UNCHANGED <<coordVars, bappebtiVars, mockVars, priceVars, prev, appVars,
                   reduceVars, poolVars>>

NextDB ==
    \/ \E c \in Callers : DBExec(c)
    \/ \E c \in Callers : DBConn(c)
    \/ \E c \in Callers : DBExecReturn(c)

\* A goroutine that can run does run, and an INSERT that has a connection
\* ends (busy_timeout bounds its wait for the file lock).
SpecDB ==
    /\ InitDB /\ [][NextDB]_vars
    /\ \A c \in Callers : WF_vars(DBConn(c)) /\ WF_vars(DBExecReturn(c))

\* ------------------------------------------------ Reduce, ParallelReduce
\* The reducing functions tried: both are associative and commutative.
Fns == {"add", "max"}

Call(fn, x, y) ==
    IF fn = "add" THEN x + y ELSE IF x >= y THEN x ELSE y

\* Reduce(slice, initial, fn)
RECURSIVE Reduce(_, _, _)
Reduce(slice, initial, fn) ==
    IF slice = <<>> THEN initial
    ELSE Reduce(Tail(slice), Call(fn, initial, Head(slice)), fn)

\* chunkSize := (len(slice) + workers - 1) / workers
ChunkSize(len, workers) == (len + workers - 1) \div workers

\* slice[start:end] of the iteration i (0-based) of the starting loop
Chunk(slice, workers, n) ==
    LET start == n * ChunkSize(Len(slice), workers)
        end == start + ChunkSize(Len(slice), workers)
    IN  SubSeq(slice, start + 1, IF end > Len(slice) THEN Len(slice) ELSE end)

\* ParallelReduce is called with some slice, initial value, fn and workers.
InitReduce ==
    /\ scrapers = <<>>
    /\ pc = "off" /\ i = 0 /\ allPrices = <<>>
    /\ ret = NoRet /\ result = NoRet /\ calls = <<>> /\ outcomes = <<>>
    /\ NotScraping
    /\ NoPriceRun
    /\ prev = NoPrev
    /\ NoRequest
    /\ NoCallers
    /\ NoPool
    /\ redIn \in [slice : SeqsUpTo({1, 2}, MaxSlice), initial : {0, 1},
                  fn : Fns, workers : 1..MaxWorkers]
    /\ redPc = "entry" /\ redI = 0 /\ redGo = <<>> /\ redWg = 0
    /\ resultChan = <<>> /\ resultChanClosed = FALSE /\ finalResult = 0

\* if len(slice) == 0 { return initial }
ReduceEmpty ==
    /\ redPc = "entry" /\ Len(redIn.slice) = 0
    /\ finalResult' = redIn.initial
    /\ redPc' = "returned"
    /\ UNCHANGED <<coordVars, bappebtiVars, mockVars, priceVars, prev, appVars, dbVars,
                   redIn, redI, redGo, redWg, resultChan, resultChanClosed, poolVars>>

\* chunkSize and resultChan are set up and the starting loop is entered.
ReduceEnter ==
    /\ redPc = "entry" /\ Len(redIn.slice) > 0
    /\ redPc' = "start" /\ redI' = 0
    /\ UNCHANGED <<coordVars, bappebtiVars, mockVars, priceVars, prev, appVars, dbVars,
                   redIn, redGo, redWg, resultChan, resultChanClosed, finalResult,
                   poolVars>>

\* One iteration of the starting loop: wg.Add(1) and go func(chunk).
ReduceStart ==
    /\ redPc = "start" /\ redI < redIn.workers
    /\ redI * ChunkSize(Len(redIn.slice), redIn.workers) < Len(redIn.slice)
    /\ redWg' = redWg + 1
    /\ redGo' = Append(redGo, [pc |-> "fold",
                               chunk |-> Chunk(redIn.slice, redIn.workers, redI),
                               result |-> 0])
    /\ redI' = redI + 1
    /\ UNCHANGED <<coordVars, bappebtiVars, mockVars, priceVars, prev, appVars, dbVars,
                   redIn, redPc, resultChan, resultChanClosed, finalResult, poolVars>>

\* The starting loop ends (i reached workers, or start >= len(slice): break);
\* the closing goroutine is started and finalResult := initial.
ReduceStarted ==
    /\ redPc = "start"
    /\ \/ redI >= redIn.workers
       \/ redI * ChunkSize(Len(redIn.slice), redIn.workers) >= Len(redIn.slice)
    /\ finalResult' = redIn.initial
    /\ redPc' = "combine"
    /\ UNCHANGED <<coordVars, bappebtiVars, mockVars, priceVars, prev, appVars, dbVars,
                   redIn, redI, redGo, redWg, resultChan, resultChanClosed, poolVars>>

\* A chunk goroutine: result := initial, then fn over its chunk.
ChunkFold(g) ==
    /\ redGo[g].pc = "fold"
    /\ redGo' = [redGo EXCEPT ![g].pc = "send",
                              ![g].result = Reduce(redGo[g].chunk, redIn.initial, redIn.fn)]
    /\ UNCHANGED <<coordVars, bappebtiVars, mockVars, priceVars, prev, appVars, dbVars,
                   redIn, redPc, redI, redWg, resultChan, resultChanClosed, finalResult,
                   poolVars>>

\* resultChan <- result, which waits while the buffer (of workers) is full.
ChunkSend(g) ==
    /\ redGo[g].pc = "send" /\ Len(resultChan) < redIn.workers
    /\ resultChan' = Append(resultChan, redGo[g].result)
    /\ redGo' = [redGo EXCEPT ![g].pc = "sent"]
    /\ UNCHANGED <<coordVars, bappebtiVars, mockVars, priceVars, prev, appVars, dbVars,
                   redIn, redPc, redI, redWg, resultChanClosed, finalResult, poolVars>>

\* defer wg.Done()
ChunkDone(g) ==
    /\ redGo[g].pc = "sent"
    /\ redWg' = redWg - 1
    /\ redGo' = [redGo EXCEPT ![g].pc = "done"]
    /\ UNCHANGED <<coordVars, bappebtiVars, mockVars, priceVars, prev, appVars, dbVars,
                   redIn, redPc, redI, resultChan, resultChanClosed, finalResult,
                   poolVars>>

\* go func() { wg.Wait(); close(resultChan) }()
ReduceClose ==
    /\ redPc = "combine" /\ ~resultChanClosed /\ redWg = 0
    /\ resultChanClosed' = TRUE
    /\ UNCHANGED <<coordVars, bappebtiVars, mockVars, priceVars, prev, appVars, dbVars,
                   redIn, redPc, redI, redGo, redWg, resultChan, finalResult, poolVars>>

\* for partialResult := range resultChan { finalResult = fn(finalResult, ...) }
ReduceCombine ==
    /\ redPc = "combine" /\ resultChan # <<>>
    /\ finalResult' = Call(redIn.fn, finalResult, Head(resultChan))
    /\ resultChan' = Tail(resultChan)
    /\ UNCHANGED <<coordVars, bappebtiVars, mockVars, priceVars, prev, appVars, dbVars,
                   redIn, redPc, redI, redGo, redWg, resultChanClosed, poolVars>>

\* The range ends on the closed and drained channel: return finalResult.
ReduceReturn ==
    /\ redPc = "combine" /\ resultChan = <<>> /\ resultChanClosed
    /\ redPc' = "returned"
    /\ UNCHANGED <<coordVars, bappebtiVars, mockVars, priceVars, prev, appVars, dbVars,
                   redIn, redI, redGo, redWg, resultChan, resultChanClosed, finalResult,
                   poolVars>>

NextReduce ==
    \/ ReduceEmpty
    \/ ReduceEnter
    \/ ReduceStart
    \/ ReduceStarted
    \/ \E g \in 1..Len(redGo) : ChunkFold(g)
    \/ \E g \in 1..Len(redGo) : ChunkSend(g)
    \/ \E g \in 1..Len(redGo) : ChunkDone(g)
    \/ ReduceClose
    \/ ReduceCombine
    \/ ReduceReturn

SpecReduce == InitReduce /\ [][NextReduce]_vars

\* ------------------------------------------------------------ WorkerPool
\* fn of the pool: some function of the job.
PoolFn(job) == 10 * job

\* make(chan T, workers*2), make(chan U, workers*2)
Capacity(workers) == workers * BufferPerWorker

\* NewWorkerPool(workers, fn) has returned: the workers wait for a job and
\* the closing goroutine waits for them; the producer is about to submit the
\* jobs 1..n, then to call Close, then to read Results().
InitPool ==
    /\ scrapers = <<>>
    /\ pc = "off" /\ i = 0 /\ allPrices = <<>>
    /\ ret = NoRet /\ result = NoRet /\ calls = <<>> /\ outcomes = <<>>
    /\ NotScraping
    /\ NoPriceRun
    /\ prev = NoPrev
    /\ NoRequest
    /\ NoCallers
    /\ NoReduce
    /\ poolIn \in [workers : 1..MaxWorkers, n : 0..MaxJobs]
    /\ jobs = <<>> /\ jobsClosed = FALSE /\ results = <<>> /\ resultsClosed = FALSE
    /\ poolGo = [w \in 1..poolIn.workers |-> [pc |-> "recv", job |-> 0]]
    /\ poolWg = poolIn.workers
    /\ producer = [pc |-> "submit", next |-> 1] /\ received = <<>>

\* Submit(job): wp.jobs <- job, which waits while the buffer is full.
Submit ==
    /\ producer.pc = "submit" /\ producer.next <= poolIn.n
    /\ Len(jobs) < Capacity(poolIn.workers)
    /\ jobs' = Append(jobs, producer.next)
    /\ producer' = [producer EXCEPT !.next = @ + 1]
    /\ UNCHANGED <<coordVars, bappebtiVars, mockVars, priceVars, prev, appVars, dbVars,
                   reduceVars, poolIn, jobsClosed, results, resultsClosed, poolGo,
                   poolWg, received>>

\* Close(): close(wp.jobs), after the last Submit; the producer turns to
\* Results().
Close ==
    /\ producer.pc = "submit" /\ producer.next > poolIn.n
    /\ jobsClosed' = TRUE
    /\ producer' = [producer EXCEPT !.pc = "read"]
    /\ UNCHANGED <<coordVars, bappebtiVars, mockVars, priceVars, prev, appVars, dbVars,
                   reduceVars, poolIn, jobs, results, resultsClosed, poolGo, poolWg,
                   received>>

\* A worker: for job := range pool.jobs, a job is received.
WorkerReceive(w) ==
    /\ poolGo[w].pc = "recv" /\ jobs # <<>>
    /\ poolGo' = [poolGo EXCEPT ![w] = [pc |-> "send", job |-> Head(jobs)]]
    /\ jobs' = Tail(jobs)
    /\ UNCHANGED <<coordVars, bappebtiVars, mockVars, priceVars, prev, appVars, dbVars,
                   reduceVars, poolIn, jobsClosed, results, resultsClosed, poolWg,
                   producer, received>>

\* A worker: pool.results <- fn(job), which waits while the buffer is full.
WorkerSend(w) ==
    /\ poolGo[w].pc = "send" /\ Len(results) < Capacity(poolIn.workers)
    /\ results' = Append(results, PoolFn(poolGo[w].job))
    /\ poolGo' = [poolGo EXCEPT ![w].pc = "recv"]
    /\ UNCHANGED <<coordVars, bappebtiVars, mockVars, priceVars, prev, appVars, dbVars,
                   reduceVars, poolIn, jobs, jobsClosed, resultsClosed, poolWg,
                   producer, received>>

\* A worker: the range ends on the closed and drained channel; wg.Done().
WorkerDone(w) ==
    /\ poolGo[w].pc = "recv" /\ jobs = <<>> /\ jobsClosed
    /\ poolGo' = [poolGo EXCEPT ![w].pc = "done"]
    /\ poolWg' = poolWg - 1
    /\ UNCHANGED <<coordVars, bappebtiVars, mockVars, priceVars, prev, appVars, dbVars,
                   reduceVars, poolIn, jobs, jobsClosed, results, resultsClosed,
                   producer, received>>

\* go func() { pool.wg.Wait(); close(pool.results) }()
CloseResults ==
    /\ poolWg = 0 /\ ~resultsClosed /\ producer.pc # "off"
    /\ resultsClosed' = TRUE
    /\ UNCHANGED <<coordVars, bappebtiVars, mockVars, priceVars, prev, appVars, dbVars,
                   reduceVars, poolIn, jobs, jobsClosed, results, poolGo, poolWg,
                   producer, received>>

\* The producer receives a value from Results().
ReadResult ==
    /\ producer.pc = "read" /\ results # <<>>
    /\ received' = Append(received, Head(results))
    /\ results' = Tail(results)
    /\ UNCHANGED <<coordVars, bappebtiVars, mockVars, priceVars, prev, appVars, dbVars,
                   reduceVars, poolIn, jobs, jobsClosed, resultsClosed, poolGo, poolWg,
                   producer>>

\* The producer finds Results() closed and drained.
ReadEnd ==
    /\ producer.pc = "read" /\ results = <<>> /\ resultsClosed
    /\ producer' = [producer EXCEPT !.pc = "done"]
    /\ UNCHANGED <<coordVars, bappebtiVars, mockVars, priceVars, prev, appVars, dbVars,
                   reduceVars, poolIn, jobs, jobsClosed, results, resultsClosed, poolGo,
                   poolWg, received>>

NextPool ==
    \/ Submit
    \/ Close
    \/ \E w \in 1..poolIn.workers : WorkerReceive(w)
    \/ \E w \in 1..poolIn.workers : WorkerSend(w)
    \/ \E w \in 1..poolIn.workers : WorkerDone(w)
    \/ CloseResults
    \/ ReadResult
    \/ ReadEnd

SpecPool == InitPool /\ [][NextPool]_vars

\* ================================================================== claims
Failure == [prices |-> <<>>, err |-> "all scrapers failed"]

RepoList == \A k \in DOMAIN scrapers : scrapers[k] \in RepoKinds

\* C1: in one ScrapeAll call the providers are invoked one at a time, in list
\* order, each at most once, and none is invoked after a provider returned
\* without error and with at least one record.
C1_SequentialFirstWins ==
    /\ Len(calls) - Len(outcomes) \in {0, 1}
    /\ \A k \in 1..Len(calls) : calls[k] = k
    /\ Len(calls) <= Len(scrapers)
    /\ \A k \in 1..Len(outcomes) : outcomes[k] = "ok" => Len(calls) = k

C1_Witness ==
    /\ pc = "done" /\ Len(scrapers) = 2
    /\ calls = <<1>> /\ outcomes = <<"ok">>

\* C2 (as claimed): over two providers, when the first returns an error or no
\* record, ScrapeAll invokes the second and returns the second's results.
C2_Original ==
    (pc = "done" /\ Len(scrapers) = 2 /\ outcomes[1] # "ok")
        => /\ calls = <<1, 2>> /\ Len(outcomes) = 2
           /\ result = [prices |-> ret.prices, err |-> ""]

\* C2 (amended): over two providers, when the first returns an error or no
\* record, ScrapeAll invokes the second; it returns the second's records when
\* the second returned at least one record without error, and the failure
\* "all scrapers failed" with no records otherwise.
C2_FallsThrough ==
    (pc = "done" /\ Len(scrapers) = 2 /\ outcomes[1] # "ok")
        => /\ calls = <<1, 2>> /\ Len(outcomes) = 2
           /\ result = IF ret.err = "" /\ Len(ret.prices) > 0
                       THEN [prices |-> ret.prices, err |-> ""]
                       ELSE Failure

C2_Witness ==
    /\ pc = "done" /\ Len(scrapers) = 2
    /\ outcomes = <<"empty", "ok">>
    /\ Len(ret.prices) > 0 /\ result.prices = ret.prices

\* C3: when ScrapeAll succeeds, the batch is exactly what one provider
\* returned (ret, the return of the provider invoked last), and that provider
\* is the first in list order that returned a record without error.
C3_SingleProviderBatch ==
    (pc = "done" /\ result.err = "")
        => /\ Len(outcomes) >= 1
           /\ outcomes[Len(outcomes)] = "ok"
           /\ \A j \in 1..(Len(outcomes) - 1) : outcomes[j] # "ok"
           /\ ret.err = "" /\ Len(ret.prices) > 0
           /\ result.prices = ret.prices

C3_Witness ==
    /\ pc = "done" /\ result.err = ""
    /\ outcomes = <<"error", "ok">>
    /\ Len(result.prices) > 0 /\ result.prices = ret.prices

\* C4: ScrapeAll returns the failure "all scrapers failed" exactly when every
\* provider of the list (none, for an empty list) returned an error or no
\* record, and then it returns no records.
C4_FailsIffAllFail ==
    pc = "done"
        => /\ result.err \in {"", Failure.err}
           /\ (result.err = Failure.err)
                <=> /\ Len(outcomes) = Len(scrapers)
                    /\ \A k \in 1..Len(outcomes) : outcomes[k] \in {"error", "empty"}
           /\ result.err # "" => result.prices = <<>>

C4_Witness ==
    /\ pc = "done" /\ Len(scrapers) = 2
    /\ outcomes = <<"error", "empty">>
    /\ result = Failure

\* C5: over the default list of NewScraperManager every completed ScrapeAll
\* returns a non-empty batch and no failure.
C5_DefaultNeverFails ==
    (scrapers = NewScraperManager /\ pc = "done")
        => result.err = "" /\ Len(result.prices) > 0

C5_Witness ==
    /\ scrapers = NewScraperManager /\ pc = "done"
    /\ outcomes = <<"empty", "ok">>
    /\ result.err = "" /\ Len(result.prices) = Cardinality(DOMAIN LastResearch)

\* C6 (as claimed): every fetch of the live provider is bounded by a timeout,
\* so a fetch the server never answers still ends and the call goes on.
C6_LiveFetchEnds ==
    pc = "b_wait" => ENABLED Next

\* C7 (as claimed): every record of a batch ScrapeAll returns has price > 0,
\* for any list of providers.
C7_Original ==
    (pc = "done" /\ result.err = "")
        => \A k \in 1..Len(result.prices) : result.prices[k].Price > 0

\* C7 (amended): the live and the simulated provider never hold a record with
\* price <= 0 (the live one drops such rows), so over a list made of the
\* repository's providers every record ScrapeAll accepts or returns has
\* price > 0; ScrapeAll itself checks no price.
C7_RepoBatchPositive ==
    /\ \A k \in 1..Len(bPrices) : bPrices[k].Price > 0
    /\ \A k \in 1..Len(mPrices) : mPrices[k].Price > 0
    /\ RepoList =>
          /\ \A k \in 1..Len(allPrices) : allPrices[k].Price > 0
          /\ \A k \in 1..Len(result.prices) : result.prices[k].Price > 0

C7_Witness ==
    /\ RepoList /\ pc = "exit" /\ scrapers[i] = "BAPPEBTI"
    /\ Len(allPrices) > 0
    /\ \E u \in 1..Len(bLog) : \E r \in 1..Len(bLog[u].doc) :
          bLog[u].doc[r].ncols >= MinColumns /\ bLog[u].doc[r].price = <<"0">>

\* The rows of a url's document that are kept, as records: those with at
\* least 4 cells and a price above 0; none when the url gave no document.
RECURSIVE Retained(_, _)
Retained(doc, url) ==
    IF doc = <<>> THEN <<>>
    ELSE LET row == Head(doc)
             rest == Retained(Tail(doc), url)
         IN  IF row.ncols >= 4 /\ extractPrice(row.price) > 0
             THEN <<ScrapedPrice(row.region, extractPrice(row.price),
                                 <<"BAPPEBTI Info Harga">>, url)>> \o rest
             ELSE rest

RECURSIVE UrlOrderConcat(_)
UrlOrderConcat(log) ==
    IF log = <<>> THEN <<>>
    ELSE UrlOrderConcat(SubSeq(log, 1, Len(log) - 1))
            \o (IF log[Len(log)].kind = "doc"
                THEN Retained(log[Len(log)].doc, Urls[Len(log)])
                ELSE <<>>)

\* C8: the live provider's Scrape returns no error whatever the urls did; a
\* url that failed adds nothing, every url is processed, and the result is
\* the concatenation in url order of the kept rows of the urls that gave a
\* document.
C8_PerUrlFailuresTolerated ==
    /\ pc \in {"b_loop", "b_wait"} =>
          /\ Len(bLog) = bUrl - 1
          /\ bPrices = UrlOrderConcat(bLog)
    /\ (pc = "returned" /\ scrapers[i] = "BAPPEBTI") =>
          /\ Len(bLog) = Len(Urls)
          /\ ret = [prices |-> UrlOrderConcat(bLog), err |-> ""]

C8_Witness ==
    /\ pc = "returned" /\ scrapers[i] = "BAPPEBTI"
    /\ Len(bLog) = 3
    /\ bLog[1].kind = "doc" /\ bLog[2].kind = "error" /\ bLog[3].kind = "doc"
    /\ Len(ret.prices) = 2

\* The digits of s as a number.
RECURSIVE NatOf(_)
NatOf(ds) ==
    IF ds = <<>> THEN 0
    ELSE 10 * NatOf(SubSeq(ds, 1, Len(ds) - 1)) + DigitVal(ds[Len(ds)])

Count(s, S) == Cardinality({k \in 1..Len(s) : s[k] \in S})

\* A price text: at least one digit, at most one decimal point, anything else
\* a separator.
ValidPrice(s) == Count(s, Digits) >= 1 /\ Count(s, {"."}) <= 1

Malformed(s) == Count(s, Digits) = 0 \/ Count(s, {"."}) > 1

\* The number written by the digits and the decimal point of s, in order.
NumberFormed(s) ==
    LET dotAt == IF \E k \in 1..Len(s) : s[k] = "."
                 THEN CHOOSE k \in 1..Len(s) : s[k] = "."
                 ELSE Len(s) + 1
        whole == SelectSeq(SubSeq(s, 1, dotAt - 1), LAMBDA c : c \in Digits)
        frac == SelectSeq(SubSeq(s, dotAt + 1, Len(s)), LAMBDA c : c \in Digits)
    IN  NatOf(whole) * PriceScale + (NatOf(frac) * PriceScale) \div (10 ^ Len(frac))

\* C9: for a price text of digits, separators and at most one decimal point,
\* extractPrice returns the number its digits and decimal point write.
C9_ExtractsNumber ==
    (pstage \in {"extracted", "row"} /\ ValidPrice(raw))
        => priceOut = NumberFormed(raw)

C9_Witness ==
    /\ pstage = "extracted" /\ ValidPrice(raw) /\ priceOut > 0
    /\ Count(raw, {"."}) = 1
    /\ Count(raw, PriceChars \ (Digits \cup {"."})) >= 1

\* C10: for a price text with no digit or with more than one decimal point
\* extractPrice returns 0; a row with such a text, with a price <= 0 or with
\* fewer than 4 cells adds no record.
C10_MalformedDropped ==
    /\ (pstage \in {"extracted", "row"} /\ Malformed(raw)) => priceOut = 0
    /\ (pstage = "row" /\ (Malformed(raw) \/ priceOut <= 0 \/ ncols < 4))
          => rowOut = <<>>

C10_Witness ==
    /\ pstage = "row" /\ ncols >= 4
    /\ Count(raw, Digits) >= 1 /\ Count(raw, {"."}) > 1
    /\ priceOut = 0 /\ rowOut = <<>>

\* C11: whenever the simulated provider's Scrape returns, at any clock value
\* and with the clock running or not, it returns no error and exactly one
\* record per region of LastResearch (none missing, none twice).
C11_OneRecordPerRegion ==
    (pc = "returned" /\ scrapers[i] = "Mock")
        => /\ ret.err = ""
           /\ Len(ret.prices) = Cardinality(DOMAIN LastResearch)
           /\ {ret.prices[j].Region : j \in 1..Len(ret.prices)} = DOMAIN LastResearch

C11_Witness ==
    /\ pc = "returned" /\ scrapers[i] = "Mock" /\ ticks > 0
    /\ ret.err = "" /\ Len(ret.prices) = 5
    /\ ret.prices[1].Region = "Pamekasan"

\* The price of record p is its region's base price changed by v percent.
PercentOff(p, v) ==
    LET basePrice == LastResearch[p.Region].BasePrice * PriceScale
    IN  p.Price = basePrice + v * (basePrice \div 100)

\* C12: every record the simulated provider holds or returns, at any clock
\* value, has the base price of its region changed by a whole percentage
\* between -2 and +2, so it lies within 2% of the base price.
C12_WithinTwoPercent ==
    \A p \in {mPrices[j] : j \in 1..Len(mPrices)}
              \cup {ret.prices[j] : j \in {n \in 1..Len(ret.prices) : scrapers[i] = "Mock"}} :
        LET basePrice == LastResearch[p.Region].BasePrice * PriceScale
        IN  /\ \E v \in -2..2 : PercentOff(p, v)
            /\ p.Price >= (basePrice \div 100) * 98
            /\ p.Price <= (basePrice \div 100) * 102

C12_Witness ==
    /\ pc = "returned" /\ scrapers[i] = "Mock"
    /\ \E j, l \in 1..Len(ret.prices) :
          PercentOff(ret.prices[j], 2) /\ PercentOff(ret.prices[l], -2)

\* C13: when the simulated provider's Scrape is called twice and both calls
\* see the same cycle value (the clock modulo VariationCycle), the second
\* call returns for every region the price the first returned.
C13_SameWindowSamePrices ==
    (pc = "returned" /\ scrapers[i] = "Mock" /\ prev.called
        /\ prev.now % VariationCycle = now % VariationCycle)
        => PriceOf(ret.prices) = prev.prices

C13_Witness ==
    /\ pc = "returned" /\ scrapers[i] = "Mock" /\ prev.called
    /\ now = prev.now + VariationCycle
    /\ DOMAIN prev.prices = DOMAIN LastResearch
    /\ PriceOf(ret.prices) = prev.prices
    /\ \E j \in 1..Len(ret.prices) : PercentOff(ret.prices[j], 1)

\* A date as YYYY-MM-DD, digit by digit.
Digit(n) == CASE n = 0 -> "0" [] n = 1 -> "1" [] n = 2 -> "2" [] n = 3 -> "3"
              [] n = 4 -> "4" [] n = 5 -> "5" [] n = 6 -> "6" [] n = 7 -> "7"
              [] n = 8 -> "8" [] n = 9 -> "9"

YearMonthDay(t) ==
    Digit(t.year \div 1000) \o Digit((t.year \div 100) % 10)
        \o Digit((t.year \div 10) % 10) \o Digit(t.year % 10) \o "-"
        \o Digit(t.month \div 10) \o Digit(t.month % 10) \o "-"
        \o Digit(t.day \div 10) \o Digit(t.day % 10)

MockRecords ==
    {mPrices[j] : j \in 1..Len(mPrices)}
        \cup {ret.prices[j] : j \in {n \in 1..Len(ret.prices) : scrapers[i] = "Mock"}}

\* C14 (as claimed): the source of every record of the simulated provider is
\* the entry's source label immediately followed by "(Last checked: ", the
\* date as YYYY-MM-DD and ")".
C14_Original ==
    \A p \in MockRecords :
        p.Source = <<LastResearch[p.Region].Source, "(Last checked: ",
                     YearMonthDay(LastResearch[p.Region].DateChecked), ")">>

\* C14 (amended): the source of every record of the simulated provider is
\* the entry's source label, one space, "(Last checked: ", the date as
\* YYYY-MM-DD and ")".
C14_SourceWithLastChecked ==
    \A p \in MockRecords :
        p.Source = <<LastResearch[p.Region].Source, " (Last checked: ",
                     YearMonthDay(LastResearch[p.Region].DateChecked), ")">>

C14_Witness ==
    /\ pc = "returned" /\ scrapers[i] = "Mock"
    /\ \E j \in 1..Len(ret.prices) :
          /\ ret.prices[j].Region = "Lombok"
          /\ ret.prices[j].Source = <<"Market Survey", " (Last checked: ", "2024-08-01", ")">>

\* The values a row was inserted with.
RowPayload(row) == Payload(row.region, row.price, row.unit, row.source)

\* The rows the request added to the table.
NewRows == SubSeq(store, base + 1, Len(store))

\* The payloads of the inserts of log that succeeded, in order.
RECURSIVE Succeeded(_)
Succeeded(log) ==
    IF log = <<>> THEN <<>>
    ELSE Succeeded(SubSeq(log, 1, Len(log) - 1))
            \o (IF log[Len(log)].ok THEN <<log[Len(log)].payload>> ELSE <<>>)

\* C15: in AutoFetchPricesFromScraper the records of the accepted batch are
\* handed to SaveScrapedPrice one by one in batch order, a failed insert does
\* not stop the loop (every record is attempted), and the rows the call added
\* are exactly the records whose own insert succeeded, in batch order.
C15_EachRecordSavedOnItsOwn ==
    (req.op = "fetch" /\ hpc \in {"save", "responded"} /\ pc = "done" /\ result.err = "")
        => /\ Len(inserts) = idx - 1
           /\ hpc = "responded" => Len(inserts) = Len(result.prices)
           /\ \A j \in 1..Len(inserts) :
                 /\ inserts[j].by = "SaveScrapedPrice"
                 /\ inserts[j].payload.region = result.prices[j].Region
                 /\ inserts[j].payload.price = result.prices[j].Price
           /\ [j \in 1..Len(NewRows) |-> RowPayload(NewRows[j])] = Succeeded(inserts)

C15_Witness ==
    /\ req.op = "fetch" /\ hpc = "responded" /\ result.err = ""
    /\ Len(result.prices) = 5 /\ Len(inserts) = 5
    /\ ~inserts[2].ok /\ inserts[3].ok /\ ~inserts[4].ok /\ inserts[5].ok
    /\ Len(NewRows) = 3

FallbackRan == \E j \in 1..Len(inserts) : inserts[j].by = "AutoFetchPrices"

FallbackFailed ==
    \E j \in 1..Len(inserts) : inserts[j].by = "AutoFetchPrices" /\ ~inserts[j].ok

\* C16: a POST /harga/fetch is answered with success unless ScrapeAll failed
\* and AutoFetchPrices failed too; AutoFetchPrices runs exactly when ScrapeAll
\* returned the aggregate failure; failed inserts of accepted records never
\* make the answer a failure.
C16_FetchFailsOnlyWhenBothFail ==
    /\ FallbackRan => result = Failure
    /\ (req.op = "fetch" /\ req.method = "POST" /\ hpc = "responded")
          => /\ FallbackRan <=> result.err # ""
             /\ reply.status \in {200, 500}
             /\ reply.status = 500 <=> (result = Failure /\ FallbackFailed)
             /\ result.err = "" => reply.status = 200

C16_Witness ==
    /\ req.op = "fetch" /\ req.method = "POST" /\ hpc = "responded"
    /\ result = Failure /\ reply.status = 500
    /\ Len(inserts) = 2 /\ inserts[1].ok /\ ~inserts[2].ok
    /\ Len(NewRows) = 1

\* The region GET /harga/current asks for, and the rows that have it.
AskedRegion == IF req.region = <<>> THEN <<"J", "e", "m", "b", "e", "r">> ELSE req.region

RowsOfRegion == {n \in 1..Len(store) : Spell(store[n].region) = AskedRegion}

\* The letters a and b are the same letter, in whatever case.
SameLetter(a, b) ==
    a = b \/ \E n \in 1..Len(UpperCase) : {a, b} = {UpperCase[n], LowerCase[n]}

\* The records of the batch whose region is region, ignoring case.
BatchMatches(region) ==
    {n \in 1..Len(result.prices) :
        LET name == Spell(result.prices[n].Region)
        IN  /\ Len(name) = Len(region)
            /\ \A m \in 1..Len(name) : SameLetter(name[m], region[m])}

C18_PreviewFirstFoldMatch ==
    (req.op = "preview" /\ hpc = "responded")
        => /\ pc = "done" /\ Len(calls) >= 1
           /\ Len(store) = base /\ inserts = <<>>
           /\ IF result.err # ""
              THEN reply.msg = Failure.err /\ reply.rows = <<>>
              ELSE IF BatchMatches(req.region) = {}
              THEN reply.msg = "region not found in scraped data" /\ reply.rows = <<>>
              ELSE /\ reply.msg = ""
                   /\ reply.rows = <<result.prices[CHOOSE n \in BatchMatches(req.region) :
                                        \A m \in BatchMatches(req.region) : n <= m]>>

C18_Witness ==
    /\ req.op = "preview" /\ hpc = "responded"
    /\ req.region = <<"j", "e", "m", "b", "e", "r">>
    /\ Len(result.prices) = 5 /\ result.prices[1].Region # "Jember"
    /\ reply.msg = "" /\ Len(reply.rows) = 1 /\ reply.rows[1].Region = "Jember"

\* C19 (as claimed): the latest-price query for region R answers with the row
\* of region R that has the largest created_at and, among rows of equal
\* created_at, the largest id; it answers NotFound exactly when no row has
\* region R.
C19_LatestByCreatedThenId ==
    (req.op = "current" /\ req.method = "GET" /\ hpc = "responded")
        => IF RowsOfRegion = {}
           THEN reply.status = 500
           ELSE /\ reply.status = 200
                /\ \E n \in RowsOfRegion :
                      /\ reply.rows = <<store[n]>>
                      /\ \A m \in RowsOfRegion :
                            \/ store[m].created_at < store[n].created_at
                            \/ /\ store[m].created_at = store[n].created_at
                               /\ store[m].id <= store[n].id

\* C20: whatever the request (fetch, preview, manual add, list, latest), a
\* step leaves every row in place and unchanged and adds at most one row; an
\* INSERT that succeeds adds exactly one row, with its payload and with an id
\* above every id given before, also when an equal payload is stored already;
\* an INSERT that fails, and any other step, leaves the table as it is.
C20_AppendOnly ==
    [][/\ Len(store') \in {Len(store), Len(store) + 1}
       /\ SubSeq(store', 1, Len(store)) = store
       /\ Len(store') = Len(store) + 1
             => /\ store'[Len(store')].id > seq
                /\ \A j \in 1..Len(store) : store[j].id # store'[Len(store')].id
                /\ seq' = store'[Len(store')].id
       /\ IF inserts' # inserts
          THEN /\ Len(inserts') = Len(inserts) + 1
               /\ inserts'[Len(inserts')].ok <=> Len(store') = Len(store) + 1
               /\ inserts'[Len(inserts')].ok
                     => RowPayload(store'[Len(store')]) = inserts'[Len(inserts')].payload
          ELSE store' = store]_vars

C20_Witness ==
    /\ hpc = "responded" /\ Len(store) = base + 1 /\ base >= 1
    /\ \E n \in 1..base :
          /\ RowPayload(store[n]) = RowPayload(store[base + 1])
          /\ store[n].id # store[base + 1].id

\* The INSERTs a request issued for which no unit was provided: those of
\* SaveScrapedPrice, those of AutoFetchPrices, and that of AddPriceHandler
\* when the body has no key unit.
UnitNotProvided(e) ==
    \/ e.by \in {"SaveScrapedPrice", "AutoFetchPrices"}
    \/ e.by = "AddPriceHandler" /\ "unit" \notin req.given

\* C21: every row stored by the acquisition path, by the outer simulated
\* fallback, or by a manual insert whose body omits the unit has unit "kg".
C21_UnitKgUnlessProvided ==
    \A n \in 1..Len(inserts) :
        (inserts[n].ok /\ UnitNotProvided(inserts[n])) => inserts[n].payload.unit = "kg"

\* The records a provider of the repository has produced: those it has
\* collected so far and those its Scrape() has just returned.
ProducedBy(kind) ==
    (IF kind = "BAPPEBTI" THEN {bPrices[j] : j \in 1..Len(bPrices)}
     ELSE IF kind = "Mock" THEN {mPrices[j] : j \in 1..Len(mPrices)}
     ELSE {})
        \cup {ret.prices[j] :
                j \in {n \in 1..Len(ret.prices) : pc = "returned" /\ scrapers[i] = kind}}

\* The provider's name is one of the pieces the source was put together from.
NamesProvider(source, kind) == \E j \in 1..Len(source) : source[j] = GetName(kind)

\* C22 (as claimed): the source of every record of a provider of the
\* repository is non-empty and contains that provider's GetName().
C22_Original ==
    \A kind \in RepoKinds : \A p \in ProducedBy(kind) :
        p.Source # <<>> /\ NamesProvider(p.Source, kind)

\* C22 (amended): the source of every record of a provider is non-empty; the
\* source of a record of the live provider is that provider's GetName(); the
\* source of a record of the simulated provider is the label of the research
\* entry of its region with the last-checked date, and the provider's
\* GetName() is no part of it.
C22_SourceNamesOrigin ==
    /\ \A kind \in RepoKinds : \A p \in ProducedBy(kind) : p.Source # <<>>
    /\ \A p \in ProducedBy("BAPPEBTI") : p.Source = <<GetName("BAPPEBTI")>>
    /\ \A p \in ProducedBy("Mock") :
          /\ p.Source[1] = LastResearch[p.Region].Source
          /\ ~NamesProvider(p.Source, "Mock")

C22_Witness ==
    /\ pc = "returned" /\ scrapers[i] = "BAPPEBTI" /\ ret.err = ""
    /\ Len(ret.prices) >= 1
    /\ ret.prices[1].Source = <<"BAPPEBTI Info Harga">>
    /\ calls = <<1>>

\* The INSERTs of SaveScrapedPrice of the request, in order: the n-th is that
\* of the n-th record of the accepted batch.
SavedLog == SelectSeq(inserts, LAMBDA e : e.by = "SaveScrapedPrice")

\* C23: the source stored for a record scraped from BAPPEBTI is
\* "BAPPEBTI Info Harga (Scraped: Standard)", and the source stored for a
\* record of the manual-research fallback is "<research source> (Last
\* checked: <date>)", the label the provider gave it.
C23_StoredLabels ==
    \A n \in 1..Len(SavedLog) :
        LET data == result.prices[n]
            stored == SavedLog[n].payload.source
        IN  IF data.Source = <<GetName("BAPPEBTI")>>
            THEN stored = <<"BAPPEBTI Info Harga", " (Scraped: ", "Standard", ")">>
            ELSE stored = <<LastResearch[data.Region].Source, " (Last checked: ",
                            YearMonthDay(LastResearch[data.Region].DateChecked), ")">>

\* C24: no step of a provider's Scrape or of ScrapeAll, and no step of a
\* preview call GetScrapedPriceJSON, changes the price store or issues an
\* INSERT; an INSERT of an acquired record (SaveScrapedPrice) is issued only
\* by the save loop of AutoFetchPricesFromScraper, after ScrapeAll returned a
\* batch without an error, and is that of a record of the batch.
C24_OnlyFetchWritesAcquired ==
    [][/\ (hpc = "scrape" \/ req'.op = "preview")
            => store' = store /\ seq' = seq /\ inserts' = inserts
       /\ (inserts' # inserts /\ inserts'[Len(inserts')].by = "SaveScrapedPrice")
            => /\ hpc = "save" /\ req.op = "fetch" /\ pc = "done"
               /\ result.err = "" /\ idx \in 1..Len(result.prices)
               /\ inserts'[Len(inserts')].payload = SavePayload(result.prices[idx])]_vars

C24_Witness ==
    /\ req.op = "preview" /\ hpc = "responded" /\ pc = "done"
    /\ result.err = "" /\ Len(result.prices) = 5
    /\ base = 2 /\ Len(store) = 2 /\ seq = 2 /\ inserts = <<>>

\* The INSERTs of AutoFetchPrices of the request, in order.
FallbackLog == SelectSeq(inserts, LAMBDA e : e.by = "AutoFetchPrices")

\* C28: AutoFetchPrices issues its INSERTs in the order Jember, Malang,
\* Surabaya, Bondowoso and returns the error of the first INSERT that fails:
\* no INSERT follows a failed one, the rows it added are those of a prefix of
\* the region list, in order, and it has returned nil (the handler answers
\* 200) only when all four were inserted.
C28_FallbackInsertsPrefix ==
    /\ Len(FallbackLog) <= Len(SimulatedRegions)
    /\ \A n \in 1..Len(FallbackLog) :
          /\ FallbackLog[n].payload.region = SimulatedRegions[n]
          /\ n < Len(FallbackLog) => FallbackLog[n].ok
    /\ FallbackRan
          => /\ Len(NewRows) <= Len(SimulatedRegions)
             /\ \A n \in 1..Len(NewRows) : NewRows[n].region = SimulatedRegions[n]
             /\ hpc = "responded"
                   => IF reply.status = 200
                      THEN Len(NewRows) = Len(SimulatedRegions)
                      ELSE /\ reply.status = 500
                           /\ Len(NewRows) = Len(FallbackLog) - 1
                           /\ ~FallbackLog[Len(FallbackLog)].ok

C28_Witness ==
    /\ req.op = "fetch" /\ hpc = "responded" /\ reply.status = 500
    /\ Len(FallbackLog) = 3 /\ ~FallbackLog[3].ok
    /\ Len(NewRows) = 2 /\ NewRows[2].region = "Malang"

\* C26 (as claimed): all records one Scrape call of the simulated provider
\* returns have the base price of their region changed by one and the same
\* percentage.
C26_Original ==
    (pc = "returned" /\ scrapers[i] = "Mock")
        => \E v \in -2..2 : \A j \in 1..Len(ret.prices) : PercentOff(ret.prices[j], v)

\* C26 (amended): every record of a running Scrape call of the simulated provider has
\* the base price of its region changed by the percentage of a clock value
\* read during the call, (unix % 5) - 2; when the clock did not advance
\* during the call, that percentage is the same for all records of the call.
C26_FactorOfClockDuringCall ==
    /\ \A p \in ProducedBy("Mock") :
          \E unix \in (now - ticks)..now : PercentOff(p, (unix % VariationCycle) - 2)
    /\ ticks = 0
          => \A p \in ProducedBy("Mock") : PercentOff(p, (now % VariationCycle) - 2)

C26_Witness ==
    /\ pc = "returned" /\ scrapers[i] = "Mock" /\ ticks = 1
    /\ Len(ret.prices) = 5 /\ now % VariationCycle = 0
    /\ PercentOff(ret.prices[1], 2) /\ PercentOff(ret.prices[5], -2)

\* A request to /harga/fetch or /harga/add whose method is not POST.
NotPost == req.op \in {"fetch", "add"} /\ req.method # "POST"

\* The request has had no effect: no provider was invoked, no INSERT was
\* issued and the table is as it was.
NoEffect ==
    /\ pc = "off" /\ calls = <<>> /\ NotScraping
    /\ inserts = <<>> /\ Len(store) = base /\ seq = base

\* C27 (as claimed): a request to /harga/fetch or /harga/add whose method is
\* not POST is answered with 405 and has no effect.
C27_Original ==
    NotPost => hpc = "responded" /\ reply.status = 405 /\ NoEffect

\* C27 (amended): a request to /harga/fetch or /harga/add whose method is not
\* POST has no effect; it is answered with 200 by enableCORS when its method
\* is OPTIONS, and with 405 by the method validation otherwise.
C27_NotPostNoEffect ==
    NotPost
        => /\ hpc = "responded" /\ NoEffect
           /\ reply.status = IF req.method = "OPTIONS" THEN 200 ELSE 405
           /\ reply.status = 405 => reply.msg = "Method tidak didukung"

C27_Witness ==
    /\ req.op = "fetch" /\ req.method = "GET" /\ hpc = "responded"
    /\ reply = RespondError("Method tidak didukung", 405)
    /\ base = 2 /\ Len(store) = 2 /\ calls = <<>>

\* The callers whose INSERT is being executed on a connection.
Writing == {c \in Callers : dbCall[c].pc = "exec"}

\* An INSERT of caller c was issued and DB.Exec has not returned.
Issued(c) == dbCall[c].pc \in {"wait", "exec"}

\* Every INSERT of caller c that DB.Exec returned from was applied or was
\* returned as an error, and a caller that is done has issued all of its own.
Accounted(c) ==
    /\ dbCall[c].applied + dbCall[c].failed = InsertsOf(dbCall[c].kind) - dbCall[c].todo
    /\ dbCall[c].pc = "done" <=> dbCall[c].todo = 0

\* C25: with any callers of DB.Exec running concurrently (fetch, manual add,
\* the goroutine of FetchWeather), at most one INSERT is being executed at
\* any time, the INSERTs applied are those counted as applied, and every
\* INSERT that was issued is eventually applied or returned as an error.
C25_OneWriterAndSettled ==
    /\ [](Cardinality(Writing) <= 1 /\ Writing = dbOpen)
    /\ [](\A c \in Callers :
             /\ Accounted(c)
             /\ dbCall[c].applied = Len(SelectSeq(dbLog, LAMBDA w : w = c)))
    /\ \A c \in Callers : Issued(c) ~> ~Issued(c)

C25_Witness ==
    /\ \A c \in Callers : dbCall[c].pc = "done"
    /\ dbCall[1].kind = "fetch" /\ dbCall[2].kind = "weather"
    /\ dbCall[1].applied = 1 /\ dbCall[1].failed = 1 /\ dbCall[2].applied = 1
    /\ dbLog = <<2, 1>>

\* C29: every call of ParallelReduce ends (a call that has not returned can
\* take a step), and it returns what Reduce returns for the same slice,
\* initial value and fn, whatever the workers and the interleaving.
C29_SameAsReduce ==
    /\ redPc # "returned" => ENABLED NextReduce
    /\ redPc = "returned"
          => finalResult = Reduce(redIn.slice, redIn.initial, redIn.fn)

\* How many of the values the producer has read are the result of job n.
ResultsOf(n) == Len(SelectSeq(received, LAMBDA u : u = PoolFn(n)))

\* C30: when the producer submits its jobs, calls Close and only then reads
\* Results(), the system never comes to a halt before the producer has read
\* to the end of Results(); then every submitted job has given exactly one
\* result, and Results() is closed only after the last result was sent.
C30_NoDeadlockOneResultPerJob ==
    /\ producer.pc # "done" => ENABLED NextPool
    /\ producer.pc = "done"
          => /\ Len(received) = poolIn.n
             /\ \A n \in 1..poolIn.n : ResultsOf(n) = 1
    /\ resultsClosed => \A w \in 1..poolIn.workers : poolGo[w].pc = "done"

====
